---------------------------- MODULE Spec2Model ----------------------------
(***************************************************************************)
(* Model of pkg/cfg/cfg.go: the IDPAccount record, its validation and the  *)
(* ConfigManager that stores one INI section per account.                  *)
(*                                                                         *)
(* A Go string is a sequence of chunks: the chunk " " is one blank         *)
(* character, the chunks ":", "/", "~" and the double quote are those     *)
(* characters, and any other chunk is a run of other characters.  <<>> is  *)
(* the empty string.  An error value is the chain of its messages,         *)
(* outermost first; <<>> is nil.  An optional value is <<>> (nil) or <<v>>.*)
(***************************************************************************)
EXTENDS Integers, Sequences, FiniteSets, TLC

VARIABLES
  file,          \* the configuration file at cm.configPath
  writable,      \* whether the process may write the configuration file
  ini,           \* the gopkg.in/ini.v1 release linked: skipsZero, quotesPadded
  saved,         \* account names for which SaveIDPAccount has returned nil
  last,          \* the last call: op, name, arg, returned account, error
  homeDir,       \* what homedir.Dir() yields: <<>> on failure, else <<dir>>
  cm,            \* NewConfigManager's result: store (<<path>> or <<>>), err
  pc,            \* per process: position inside SaveIDPAccount
  job,           \* per process: the arguments of its SaveIDPAccount call
  cfg,           \* per process: the ini.File it holds in memory
  order,         \* the processes' loads ("L") and writes ("W"), in order
  rt             \* the scripted save/save/load run: step, name, account

vars == <<file, writable, ini, saved, last, homeDir, cm, pc, job, cfg, order, rt>>

---------------------------------------------------------------------------
(* Strings and errors *)

Empty == <<>>
Blank == <<" ">>
Nil == <<>>
None == <<>>
Some(v) == <<v>>

RECURSIVE TrimLeft(_)
TrimLeft(s) == IF s # <<>> /\ Head(s) = " " THEN TrimLeft(Tail(s)) ELSE s

RECURSIVE TrimRight(_)
TrimRight(s) ==
  IF s # <<>> /\ s[Len(s)] = " " THEN TrimRight(SubSeq(s, 1, Len(s) - 1)) ELSE s

TrimSpace(s) == TrimRight(TrimLeft(s))

ErrorsNew(msg) == <<msg>>
ErrorsWrap(err, msg) == <<msg>> \o err

ErrIdpAccountNotFound == ErrorsNew("IDP account not found, run configure to set it up")

---------------------------------------------------------------------------
(* Constants of the package *)

DefaultConfigPath == <<"~", "/", ".saml2aws">>
DefaultAmazonWebservicesURN == <<"urn:amazon:webservices">>
DefaultSessionDuration == 3600
DefaultProfile == <<"saml">>

OneLogin == <<"OneLogin">>

---------------------------------------------------------------------------
(* IDPAccount *)

\* url.Parse rejects a URL whose first character is a colon ("missing
\* protocol scheme"); blanks and ordinary text parse.
UrlParseFails(u) == u # <<>> /\ Head(u) = ":"

Validate_UrlFirst(ia) ==
  IF ia.URL = Empty THEN ErrorsNew("URL empty in idp account")
  ELSE IF ia.Provider = OneLogin /\ ia.AppID = Empty
    THEN ErrorsNew("app ID empty in idp account")
  ELSE IF ia.Provider = OneLogin /\ ia.Subdomain = Empty
    THEN ErrorsNew("subdomain empty in idp account")
  ELSE IF UrlParseFails(ia.URL) THEN ErrorsNew("URL parse failed")
  ELSE IF ia.Provider = Empty THEN ErrorsNew("Provider empty in idp account")
  ELSE IF ia.MFA = Empty THEN ErrorsNew("MFA empty in idp account")
  ELSE IF ia.Profile = Empty THEN ErrorsNew("Profile empty in idp account")
  ELSE Nil

Validate(ia) ==
  IF ia.Provider = OneLogin /\ ia.AppID = Empty
    THEN ErrorsNew("app ID empty in idp account")
  ELSE IF ia.Provider = OneLogin /\ ia.Subdomain = Empty
    THEN ErrorsNew("subdomain empty in idp account")
  ELSE IF ia.URL = Empty THEN ErrorsNew("URL empty in idp account")
  ELSE IF UrlParseFails(ia.URL) THEN ErrorsNew("URL parse failed")
  ELSE IF ia.Provider = Empty THEN ErrorsNew("Provider empty in idp account")
  ELSE IF ia.MFA = Empty THEN ErrorsNew("MFA empty in idp account")
  ELSE IF ia.Profile = Empty THEN ErrorsNew("Profile empty in idp account")
  ELSE Nil

NewIDPAccount ==
  [AppID |-> Empty, URL |-> Empty, Username |-> Empty, Provider |-> Empty,
   MFA |-> Empty, SkipVerify |-> FALSE, Timeout |-> 0,
   AmazonWebservicesURN |-> DefaultAmazonWebservicesURN,
   SessionDuration |-> DefaultSessionDuration,
   Profile |-> DefaultProfile, Subdomain |-> Empty, RoleARN |-> Empty]

---------------------------------------------------------------------------
(* The ini package as cfg.go uses it.  A file is missing, unparsable      *)
(* ("corrupt": e.g. a hand-edited line without a key-value delimiter) or a *)
(* document; a document maps the names of its sections to their keys.      *)
(* Section names are sequences of labels: <<"corp","dev">> is [corp.dev],  *)
(* <<>> is the empty name.                                                 *)

Parent(name) == SubSeq(name, 1, Len(name) - 1)

MissingFile == [kind |-> "missing", secs |-> <<>>]
CorruptFile == [kind |-> "corrupt", secs |-> <<>>]
DocFile(secs) == [kind |-> "doc", secs |-> secs]

\* Releases of gopkg.in/ini.v1 differ in two ways that show here: whether
\* MapTo leaves an int field alone when the value is 0 (older releases do),
\* and whether SaveTo writes a value with a blank at either end in double
\* quotes (newer releases do).  The release linked is not fixed by cfg.go.
IniReleases == [skipsZero : BOOLEAN, quotesPadded : BOOLEAN]

Quote == "\""

\* A value as SaveTo writes it after "key = ".
IniWriteValue(val, lib) ==
  IF lib.quotesPadded /\ TrimSpace(val) # val THEN <<Quote>> \o val \o <<Quote>> ELSE val

\* A value as the parser reads it from "key = value": the blanks around it
\* go, then one pair of enclosing quotes with no quote between them.
IniReadValue(text) ==
  LET t == TrimSpace(text) IN
  IF /\ Len(t) >= 2 /\ t[1] = Quote /\ t[Len(t)] = Quote
     /\ \A i \in 2..(Len(t) - 1) : t[i] # Quote
    THEN SubSeq(t, 2, Len(t) - 1)
    ELSE t

IniWriteSection(sec, lib) ==
  [app_id |-> IniWriteValue(sec.app_id, lib), url |-> IniWriteValue(sec.url, lib),
   username |-> IniWriteValue(sec.username, lib),
   provider |-> IniWriteValue(sec.provider, lib),
   mfa |-> IniWriteValue(sec.mfa, lib), skip_verify |-> sec.skip_verify,
   timeout |-> sec.timeout, aws_urn |-> IniWriteValue(sec.aws_urn, lib),
   aws_session_duration |-> sec.aws_session_duration,
   aws_profile |-> IniWriteValue(sec.aws_profile, lib),
   subdomain |-> IniWriteValue(sec.subdomain, lib),
   role_arn |-> IniWriteValue(sec.role_arn, lib)]

IniReadSection(sec) ==
  [app_id |-> IniReadValue(sec.app_id), url |-> IniReadValue(sec.url),
   username |-> IniReadValue(sec.username), provider |-> IniReadValue(sec.provider),
   mfa |-> IniReadValue(sec.mfa), skip_verify |-> sec.skip_verify,
   timeout |-> sec.timeout, aws_urn |-> IniReadValue(sec.aws_urn),
   aws_session_duration |-> sec.aws_session_duration,
   aws_profile |-> IniReadValue(sec.aws_profile),
   subdomain |-> IniReadValue(sec.subdomain), role_arn |-> IniReadValue(sec.role_arn)]

\* ini.LoadSources(ini.LoadOptions{Loose: true}, path): the sections in
\* memory, or an error.  A missing file is an empty document.
LoadSources(f) ==
  IF f.kind = "corrupt"
    THEN [secs |-> <<>>, err |-> ErrorsNew("key-value delimiter not found")]
    ELSE [secs |-> [n \in DOMAIN f.secs |-> IniReadSection(f.secs[n])], err |-> Nil]

\* cfg.NewSection(name): the section of that name, created empty when the
\* document has none; the empty name is refused.
NewSection_Dup(secs, name) ==
  IF name = <<>> \/ name \in DOMAIN secs
    THEN [secs |-> secs, err |-> ErrorsNew("error creating new section")]
    ELSE [secs |-> secs, err |-> Nil]

NewSection(secs, name) ==
  IF name = <<>>
    THEN [secs |-> secs, err |-> ErrorsNew("error creating new section: empty section name")]
    ELSE [secs |-> secs, err |-> Nil]

\* newSec.ReflectFrom(account): every field becomes a key under its ini
\* tag (no tag says omitempty), strings as they are, numbers and booleans
\* as fmt.Sprint prints them (strconv reads those back unchanged, so they
\* are kept as values).  A section that exists keeps no other key here: the
\* twelve keys are all a section of this program has.
SectionOf(account) ==
  [app_id |-> account.AppID, url |-> account.URL, username |-> account.Username,
   provider |-> account.Provider, mfa |-> account.MFA,
   skip_verify |-> account.SkipVerify, timeout |-> account.Timeout,
   aws_urn |-> account.AmazonWebservicesURN,
   aws_session_duration |-> account.SessionDuration,
   aws_profile |-> account.Profile, subdomain |-> account.Subdomain,
   role_arn |-> account.RoleARN]

ReflectFrom_DropSkipVerify(secs, name, account) ==
  [n \in DOMAIN secs \cup {name} |->
     IF n = name THEN [SectionOf(account) EXCEPT !.skip_verify = FALSE] ELSE secs[n]]

ReflectFrom(secs, name, account) ==
  [n \in DOMAIN secs \cup {name} |-> IF n = name THEN SectionOf(account) ELSE secs[n]]

\* cfg.SaveTo(path): the whole document in memory, written out, replaces
\* the file.
SaveTo_Merge(f, secs, lib) ==
  DocFile([n \in DOMAIN f.secs \cup DOMAIN secs |->
             IF n \in DOMAIN secs THEN IniWriteSection(secs[n], lib) ELSE f.secs[n]])

SaveTo(f, secs, lib) == DocFile([n \in DOMAIN secs |-> IniWriteSection(secs[n], lib)])

\* cfg.Section(name) yields the section, or a new empty one for an unknown
\* name.  Section.GetKey yields the section's own key, else (ini's child
\* sections) the key of the nearest existing section whose name is the
\* section's up to a ".": [corp.dev] reads from [corp] what it lacks.  A
\* section this program wrote has all twelve keys, so the keys MapTo reads
\* all come from one section: the named one, else its nearest parent.
RECURSIVE HomeSection(_, _)
HomeSection(secs, name) ==
  IF name \in DOMAIN secs THEN Some(secs[name])
  ELSE IF Len(name) > 1 THEN HomeSection(secs, Parent(name))
  ELSE None

\* setWithProperType for a string field: an empty value leaves the field.
MapString(cur, val) == IF val = Empty THEN cur ELSE val

\* ... for an int field: older releases leave the field on 0.
MapInt(cur, val, skipsZero) == IF val = 0 /\ skipsZero THEN cur ELSE val

\* sec.MapTo(account)
MapTo(account, secs, name, lib) ==
  LET home == HomeSection(secs, name) IN
  IF home = None THEN account
  ELSE LET s == home[1] IN
    [AppID |-> MapString(account.AppID, s.app_id),
     URL |-> MapString(account.URL, s.url),
     Username |-> MapString(account.Username, s.username),
     Provider |-> MapString(account.Provider, s.provider),
     MFA |-> MapString(account.MFA, s.mfa),
     SkipVerify |-> s.skip_verify,
     Timeout |-> MapInt(account.Timeout, s.timeout, lib.skipsZero),
     AmazonWebservicesURN |-> MapString(account.AmazonWebservicesURN, s.aws_urn),
     SessionDuration |-> MapInt(account.SessionDuration, s.aws_session_duration, lib.skipsZero),
     Profile |-> MapString(account.Profile, s.aws_profile),
     Subdomain |-> MapString(account.Subdomain, s.subdomain),
     RoleARN |-> MapString(account.RoleARN, s.role_arn)]

readAccount(idpAccountName, secs, lib) ==
  MapTo(NewIDPAccount, secs, idpAccountName, lib)

---------------------------------------------------------------------------
(* ConfigManager: what each method returns and does to the file *)

\* SaveIDPAccount with the file written before the account is validated.
SaveIDPAccountRes_WriteFirst(f, idpAccountName, account, canWrite, lib) ==
  LET loaded == LoadSources(f)
      newSec == NewSection(loaded.secs, idpAccountName)
      done   == loaded.err = Nil /\ newSec.err = Nil /\ canWrite
      out    == IF done
                  THEN SaveTo(f, ReflectFrom(newSec.secs, idpAccountName, account), lib)
                  ELSE f
  IN
  IF Validate(account) # Nil
    THEN [file |-> out, err |-> ErrorsWrap(Validate(account), "Account validation failed")]
  ELSE IF loaded.err # Nil
    THEN [file |-> f, err |-> ErrorsWrap(loaded.err, "Unable to load configuration file")]
  ELSE IF newSec.err # Nil
    THEN [file |-> f,
          err |-> ErrorsWrap(newSec.err, "Unable to build a new section in configuration file")]
  ELSE IF ~canWrite
    THEN [file |-> f,
          err |-> ErrorsWrap(ErrorsNew("permission denied"), "Failed to save configuration file")]
  ELSE [file |-> out, err |-> Nil]

\* SaveIDPAccount.  ReflectFrom cannot fail on IDPAccount (strings, ints and
\* a bool only), so its error branch is never taken.  SaveTo fails when the
\* file may not be written, and then leaves it alone.
SaveIDPAccountRes(f, idpAccountName, account, canWrite, lib) ==
  LET loaded == LoadSources(f)
      newSec == NewSection(loaded.secs, idpAccountName)
  IN
  IF Validate(account) # Nil
    THEN [file |-> f, err |-> ErrorsWrap(Validate(account), "Account validation failed")]
  ELSE IF loaded.err # Nil
    THEN [file |-> f, err |-> ErrorsWrap(loaded.err, "Unable to load configuration file")]
  ELSE IF newSec.err # Nil
    THEN [file |-> f,
          err |-> ErrorsWrap(newSec.err, "Unable to build a new section in configuration file")]
  ELSE IF ~canWrite
    THEN [file |-> f,
          err |-> ErrorsWrap(ErrorsNew("permission denied"), "Failed to save configuration file")]
  ELSE [file |-> SaveTo(f, ReflectFrom(newSec.secs, idpAccountName, account), lib),
        err |-> Nil]

\* LoadIDPAccount.  MapTo is not strict and the file's numbers and booleans
\* are the ones ReflectFrom wrote, so readAccount returns no error.
LoadIDPAccountRes(f, idpAccountName, lib) ==
  LET loaded == LoadSources(f) IN
  IF loaded.err # Nil
    THEN [account |-> None,
          err |-> ErrorsWrap(loaded.err, "Unable to load configuration file")]
    ELSE [account |-> Some(readAccount(idpAccountName, loaded.secs, lib)),
          err |-> Nil]

\* LoadVerifyIDPAccount: reflect.DeepEqual with NewIDPAccount() is equality
\* of the two records.
LoadVerifyIDPAccountRes(f, idpAccountName, lib) ==
  LET loaded  == LoadSources(f)
      account == readAccount(idpAccountName, loaded.secs, lib)
  IN
  IF loaded.err # Nil
    THEN [account |-> None,
          err |-> ErrorsWrap(loaded.err, "Unable to load configuration file")]
  ELSE IF account = NewIDPAccount
    THEN [account |-> None, err |-> ErrIdpAccountNotFound]
  ELSE [account |-> Some(account), err |-> Nil]

IsErrIdpAccountNotFound(err) == err = ErrIdpAccountNotFound

---------------------------------------------------------------------------
(* Inputs of the sequential specification *)

Corp == <<"corp">>
CorpDev == <<"corp", "dev">>
SectionNames == {Corp, CorpDev}
Names == SectionNames \cup {<<>>}

GoodURL == <<"https://x.example/sso">>
Ping == <<"Ping">>
Auto == <<"Auto">>

\* The accounts the sequential specification saves: url, provider and mfa
\* are each ordinary or one blank, and mfa may be empty (an invalid account).
StoreProfiles ==
  {[NewIDPAccount EXCEPT !.URL = u, !.Provider = p, !.MFA = m] :
     u \in {GoodURL, Blank}, p \in {Ping, Blank}, m \in {Empty, Auto, Blank}}

NoCall == [op |-> "none", name |-> <<>>, arg |-> None, account |-> None, err |-> Nil]

IdleOpen == homeDir = None /\ cm = [store |-> None, err |-> Nil]
IdleRace == pc = <<>> /\ job = <<>> /\ cfg = <<>> /\ order = <<>>
IdleScript == rt = [step |-> "off", name |-> <<>>, account |-> None, snap |-> MissingFile]

Init ==
  /\ file \in {MissingFile, DocFile(<<>>), CorruptFile}
  /\ writable \in BOOLEAN
  /\ ini \in IniReleases
  /\ saved = {}
  /\ last = NoCall
  /\ IdleOpen /\ IdleRace /\ IdleScript

\* The calls, as steps: what they do to the file and what they return.
SaveIDPAccount(idpAccountName, account) ==
  LET res == SaveIDPAccountRes(file, idpAccountName, account, writable, ini) IN
  /\ file' = res.file
  /\ saved' = IF res.err = Nil THEN saved \cup {idpAccountName} ELSE saved
  /\ last' = [op |-> "Save", name |-> idpAccountName, arg |-> Some(account),
              account |-> None, err |-> res.err]

LoadIDPAccount(idpAccountName) ==
  LET res == LoadIDPAccountRes(file, idpAccountName, ini) IN
  /\ last' = [op |-> "Load", name |-> idpAccountName, arg |-> None,
              account |-> res.account, err |-> res.err]
  /\ UNCHANGED <<file, saved>>

LoadVerifyIDPAccount(idpAccountName) ==
  LET res == LoadVerifyIDPAccountRes(file, idpAccountName, ini) IN
  /\ last' = [op |-> "LoadVerify", name |-> idpAccountName, arg |-> None,
              account |-> res.account, err |-> res.err]
  /\ UNCHANGED <<file, saved>>

others == <<writable, ini, homeDir, cm, pc, job, cfg, order>>

Save ==
  /\ \E n \in Names, a \in StoreProfiles : SaveIDPAccount(n, a)
  /\ UNCHANGED <<others, rt>>

Load ==
  /\ \E n \in Names : LoadIDPAccount(n)
  /\ UNCHANGED <<others, rt>>

LoadVerify ==
  /\ \E n \in Names : LoadVerifyIDPAccount(n)
  /\ UNCHANGED <<others, rt>>

Next == Save \/ Load \/ LoadVerify

Spec == Init /\ [][Next]_vars

---------------------------------------------------------------------------
(* Claims checked under Spec *)

Readable == file.kind # "corrupt"

\* C2: a SaveIDPAccount whose account fails Validate returns the validation
\* error, wrapped, and leaves the file as it was, so that every name loads
\* after the call what it loaded before it.
C2_InvalidSaveLeavesFile ==
  [][(last'.op = "Save" /\ Validate(last'.arg[1]) # Nil) =>
       /\ last'.err = ErrorsWrap(Validate(last'.arg[1]), "Account validation failed")
       /\ file' = file
       /\ \A n \in Names :
            LoadIDPAccountRes(file', n, ini) = LoadIDPAccountRes(file, n, ini)]_vars

\* C2 happens: an invalid save under a name that holds a saved valid account.
C2_Witness ==
  /\ last.op = "Save"
  /\ Validate(last.arg[1]) # Nil
  /\ last.name \in saved
  /\ last.name \in DOMAIN file.secs
  /\ Validate(LoadIDPAccountRes(file, last.name, ini).account[1]) = Nil

\* C3 as stated: LoadVerifyIDPAccount on a name never saved returns
\* ErrIdpAccountNotFound and no account; IsErrIdpAccountNotFound is true of
\* that error, false of nil and of every other error the package returns.
C3_NeverSavedIsNotFound ==
  /\ (last.op = "LoadVerify" /\ last.name \notin saved /\ Readable) =>
       /\ last.err = ErrIdpAccountNotFound
       /\ last.account = None
       /\ IsErrIdpAccountNotFound(last.err)
  /\ ~IsErrIdpAccountNotFound(Nil)
  /\ (last.op # "LoadVerify" => ~IsErrIdpAccountNotFound(last.err))
  /\ (last.op = "LoadVerify" /\ ~Readable => ~IsErrIdpAccountNotFound(last.err))

\* C4 as stated: LoadIDPAccount on a name never saved returns no error and
\* exactly NewIDPAccount(), whatever was saved under other names.
C4_NeverSavedLoadsDefaults ==
  (last.op = "Load" /\ last.name \notin saved /\ Readable) =>
    (last.err = Nil /\ last.account = Some(NewIDPAccount))

\* C9 as stated: once SaveIDPAccount(name, P) has succeeded,
\* LoadVerifyIDPAccount(name) never returns ErrIdpAccountNotFound.
C9_SavedIsNeverNotFound ==
  (last.op = "LoadVerify" /\ last.name \in saved) => last.err # ErrIdpAccountNotFound

\* C10 as stated: a successful SaveIDPAccount(name, P) leaves what every
\* other name loads unchanged, and the two loads never change the file.
C10_SaveTouchesOneSection ==
  [][/\ (last'.op = "Save" /\ last'.err = Nil) =>
          \A m \in Names \ {last'.name} :
            LoadIDPAccountRes(file', m, ini) = LoadIDPAccountRes(file, m, ini)
     /\ (last'.op \in {"Load", "LoadVerify"} => file' = file)]_vars

---------------------------------------------------------------------------
(* Validate as a function of the account: SpecValidate draws an account    *)
(* and applies Validate to it.                                             *)

MaxBlanks == 1
MaxTimeout == 1

Blanks(n) == [i \in 1..n |-> " "]
BlankStrings == {Blanks(n) : n \in 1..MaxBlanks}

BadURL == <<":", "example">>

ValidateProfiles ==
  {[NewIDPAccount EXCEPT !.AppID = a, !.URL = u, !.Provider = p, !.MFA = m,
                         !.Timeout = t, !.Profile = pr, !.Subdomain = sd] :
     a \in {Empty, <<"123456">>},
     u \in {Empty, GoodURL, BadURL} \cup BlankStrings,
     p \in {Empty, OneLogin, Ping} \cup BlankStrings,
     m \in {Empty, Auto} \cup BlankStrings,
     t \in 0..MaxTimeout,
     pr \in {Empty, DefaultProfile} \cup BlankStrings,
     sd \in {Empty, <<"acme">>}}

InitValidate ==
  /\ file = MissingFile /\ writable = TRUE /\ ini \in IniReleases /\ saved = {}
  /\ last = NoCall
  /\ IdleOpen /\ IdleRace
  /\ \E a \in ValidateProfiles :
       rt = [step |-> "start", name |-> <<>>, account |-> Some(a), snap |-> MissingFile]

ValidateCall ==
  /\ rt.step = "start"
  /\ last' = [op |-> "Validate", name |-> <<>>, arg |-> rt.account, account |-> None,
              err |-> Validate(rt.account[1])]
  /\ rt' = [rt EXCEPT !.step = "done"]
  /\ UNCHANGED <<file, writable, ini, saved, homeDir, cm, pc, job, cfg, order>>

NextValidate == ValidateCall

SpecValidate == InitValidate /\ [][NextValidate]_vars

\* The seven rules in the order the specification lists them.
Rules(ia) ==
  << [bad |-> ia.Provider = OneLogin /\ ia.AppID = Empty, msg |-> "app ID empty in idp account"],
     [bad |-> ia.Provider = OneLogin /\ ia.Subdomain = Empty, msg |-> "subdomain empty in idp account"],
     [bad |-> ia.URL = Empty, msg |-> "URL empty in idp account"],
     [bad |-> UrlParseFails(ia.URL), msg |-> "URL parse failed"],
     [bad |-> ia.Provider = Empty, msg |-> "Provider empty in idp account"],
     [bad |-> ia.MFA = Empty, msg |-> "MFA empty in idp account"],
     [bad |-> ia.Profile = Empty, msg |-> "Profile empty in idp account"] >>

Violated(ia) == {i \in 1..7 : Rules(ia)[i].bad}
FirstViolated(ia) == CHOOSE i \in Violated(ia) : \A j \in Violated(ia) : i <= j

\* C5: Validate returns nil exactly when no rule is violated, and otherwise
\* the message of the first violated rule in the listed order; OneLogin with
\* an empty appID always gives "app ID empty in idp account".
C5_FirstViolatedRule ==
  last.op = "Validate" =>
    LET ia == last.arg[1] IN
    /\ (Violated(ia) = {} <=> last.err = Nil)
    /\ (Violated(ia) # {} => last.err = <<Rules(ia)[FirstViolated(ia)].msg>>)
    /\ (ia.Provider = OneLogin /\ ia.AppID = Empty =>
          last.err = <<"app ID empty in idp account">>)

\* C5 happens: OneLogin without appID and with an empty url, provider rule
\* reported first although later rules are violated too.
C5_Witness ==
  /\ last.op = "Validate"
  /\ last.arg[1].Provider = OneLogin /\ last.arg[1].AppID = Empty
  /\ last.arg[1].URL = Empty /\ last.arg[1].MFA = Empty
  /\ last.err = <<"app ID empty in idp account">>

---------------------------------------------------------------------------
(* The round trip: SpecScript draws a name, an account and the file's      *)
(* earlier contents, saves the account once or twice and loads it back.    *)

Padded == <<"alice", " ">>
Quoted == <<Quote, "alice", Quote>>
OtherURN == <<"urn:amazon:webservices:govcloud">>

ScriptProfiles ==
  {[AppID |-> a, URL |-> u, Username |-> un, Provider |-> p, MFA |-> m,
    SkipVerify |-> sv, Timeout |-> t, AmazonWebservicesURN |-> urn,
    SessionDuration |-> d, Profile |-> DefaultProfile, Subdomain |-> <<"acme">>,
    RoleARN |-> Empty] :
     a \in {Empty, <<"123456">>},
     u \in {GoodURL, <<" ">> \o GoodURL} \cup BlankStrings,
     un \in {Empty, Padded, Quoted},
     p \in {Ping, OneLogin} \cup BlankStrings,
     m \in {Empty, Auto} \cup BlankStrings,
     sv \in BOOLEAN,
     t \in 0..MaxTimeout,
     urn \in {Empty, DefaultAmazonWebservicesURN, OtherURN},
     d \in {0, DefaultSessionDuration, 2 * DefaultSessionDuration}}

\* What the file may hold before the script runs: nothing, or a [corp]
\* section that an earlier save wrote.
OldAccount ==
  [NewIDPAccount EXCEPT !.URL = GoodURL, !.Provider = Ping, !.MFA = Auto,
                        !.Username = <<"bob">>, !.SkipVerify = TRUE,
                        !.RoleARN = <<"arn:aws:iam::1:role/old">>]

ScriptFiles == {MissingFile, DocFile(Corp :> SectionOf(OldAccount))}

InitScript ==
  /\ file \in ScriptFiles
  /\ writable = TRUE
  /\ ini \in IniReleases
  /\ saved = {}
  /\ last = NoCall
  /\ IdleOpen /\ IdleRace
  /\ \E n \in SectionNames, a \in ScriptProfiles :
       rt = [step |-> "start", name |-> n, account |-> Some(a), snap |-> file]

\* the first SaveIDPAccount(name, P)
ScriptSave ==
  /\ rt.step = "start"
  /\ SaveIDPAccount(rt.name, rt.account[1])
  /\ rt' = [rt EXCEPT !.step = "saved1", !.snap = file']
  /\ UNCHANGED others

\* SaveIDPAccount(name, P) again, straight after a first one that succeeded
ScriptSaveAgain ==
  /\ rt.step = "saved1" /\ last.err = Nil
  /\ SaveIDPAccount(rt.name, rt.account[1])
  /\ rt' = [rt EXCEPT !.step = "saved2"]
  /\ UNCHANGED others

\* LoadIDPAccount(name) after the save or saves succeeded
ScriptLoad ==
  /\ rt.step \in {"saved1", "saved2"} /\ last.err = Nil
  /\ LoadIDPAccount(rt.name)
  /\ rt' = [rt EXCEPT !.step = IF rt.step = "saved1" THEN "loaded1" ELSE "loaded2"]
  /\ UNCHANGED others

NextScript == ScriptSave \/ ScriptSaveAgain \/ ScriptLoad

SpecScript == InitScript /\ [][NextScript]_vars

HasBlankEnd(text) == text # Empty /\ (text[1] = " " \/ text[Len(text)] = " ")
IsQuoted(text) == Len(text) >= 2 /\ text[1] = Quote /\ text[Len(text)] = Quote

\* A saved string field as LoadIDPAccount returns it.  The text comes back
\* whole when it has a blank at an end and the ini release writes such text
\* in quotes; otherwise without the blanks around it and without the quotes
\* that enclose it.  What is then empty comes back as the default.
StringBack(text, default, lib) ==
  LET bare == IF Len(text) >= 2 THEN SubSeq(text, 2, Len(text) - 1) ELSE Empty
      kept == IF HasBlankEnd(text)
                THEN (IF lib.quotesPadded THEN text ELSE TrimSpace(text))
                ELSE (IF IsQuoted(text) THEN bare ELSE text)
  IN IF kept = Empty THEN default ELSE kept

\* The account LoadIDPAccount returns for a saved account p.
ReadBack(p, lib) ==
  [AppID |-> StringBack(p.AppID, Empty, lib), URL |-> StringBack(p.URL, Empty, lib),
   Username |-> StringBack(p.Username, Empty, lib),
   Provider |-> StringBack(p.Provider, Empty, lib),
   MFA |-> StringBack(p.MFA, Empty, lib), SkipVerify |-> p.SkipVerify,
   Timeout |-> p.Timeout,
   AmazonWebservicesURN |->
     StringBack(p.AmazonWebservicesURN, DefaultAmazonWebservicesURN, lib),
   SessionDuration |-> IF p.SessionDuration = 0 /\ lib.skipsZero
                         THEN DefaultSessionDuration ELSE p.SessionDuration,
   Profile |-> StringBack(p.Profile, DefaultProfile, lib),
   Subdomain |-> StringBack(p.Subdomain, Empty, lib),
   RoleARN |-> StringBack(p.RoleARN, Empty, lib)]

Strings(p) ==
  {p.AppID, p.URL, p.Username, p.Provider, p.MFA, p.AmazonWebservicesURN,
   p.Profile, p.Subdomain, p.RoleARN}

\* An account the file keeps as it is: no string with a blank at either end
\* or enclosed in quotes, a non-empty awsURN and a non-zero sessionDuration.
KeptAsIs(p) ==
  /\ \A s \in Strings(p) : ~HasBlankEnd(s) /\ ~IsQuoted(s)
  /\ p.AmazonWebservicesURN # Empty
  /\ p.SessionDuration # 0

\* C1 as stated: after a successful SaveIDPAccount(name, P),
\* LoadIDPAccount(name) returns an account equal to P in every field.
C1_RoundTripExact ==
  rt.step = "loaded1" => (last.err = Nil /\ last.account = Some(rt.account[1]))

\* C1 amended: LoadIDPAccount(name) returns P with every string field as
\* the INI file reads it back (StringBack), a string field that is empty
\* then at its NewIDPAccount default, and a sessionDuration of 0 at 0 or
\* (ini releases that skip zero) at the default; it returns P itself when
\* P has no such field (KeptAsIs).
C1_RoundTripReadBack ==
  rt.step = "loaded1" =>
    /\ last.err = Nil
    /\ last.account = Some(ReadBack(rt.account[1], ini))
    /\ (KeptAsIs(rt.account[1]) => last.account = rt.account)

\* C1 happens, both ways: an account that comes back as it is, with
\* skipVerify set and a non-default awsURN, over an older [corp] section.
C1_Witness ==
  /\ rt.step = "loaded1"
  /\ KeptAsIs(rt.account[1])
  /\ rt.account[1].SkipVerify
  /\ rt.account[1].AmazonWebservicesURN = OtherURN
  /\ rt.name = Corp
  /\ Corp \in DOMAIN rt.snap.secs
  /\ last.account = rt.account

\* C6 as stated: SaveIDPAccount(name, P) twice in a row both succeed and
\* LoadIDPAccount(name) then returns P.
C6_SaveTwiceExact ==
  /\ rt.step = "saved2" => last.err = Nil
  /\ rt.step = "loaded2" => (last.err = Nil /\ last.account = Some(rt.account[1]))

\* C6 amended: the second save succeeds and leaves the file the first save
\* wrote (one section under the name, replaced), and LoadIDPAccount(name)
\* then returns P read back as in C1: P itself when the file keeps P as is.
C6_SaveTwiceReadBack ==
  /\ rt.step = "saved2" => (last.err = Nil /\ file = rt.snap)
  /\ rt.step = "loaded2" =>
       /\ last.err = Nil
       /\ last.account = Some(ReadBack(rt.account[1], ini))
       /\ (KeptAsIs(rt.account[1]) => last.account = rt.account)

\* C6 happens: a second save over the section the first one wrote, then a
\* load that returns the account.
C6_Witness ==
  /\ rt.step = "loaded2"
  /\ KeptAsIs(rt.account[1])
  /\ rt.name \in DOMAIN rt.snap.secs
  /\ file = rt.snap
  /\ last.account = rt.account

---------------------------------------------------------------------------
(* NewConfigManager: SpecOpen draws the environment (the home directory,   *)
(* the file at the path) and opens stores on a few paths.                  *)

\* filepath.Clean on the paths used here: runs of "/" collapse and a
\* trailing "/" goes, except for the root.
RECURSIVE Squeeze(_)
Squeeze(p) ==
  IF Len(p) < 2 THEN p
  ELSE IF p[1] = "/" /\ p[2] = "/" THEN Squeeze(Tail(p))
  ELSE <<p[1]>> \o Squeeze(Tail(p))

Clean(p) ==
  LET q == Squeeze(p) IN
  IF Len(q) > 1 /\ q[Len(q)] = "/" THEN SubSeq(q, 1, Len(q) - 1) ELSE q

\* filepath.Join(dir, rest): the non-empty elements, "/" between them, cleaned.
Join(dir, rest) == IF rest = <<>> THEN Clean(dir) ELSE Clean(dir \o <<"/">> \o rest)

\* homedir.Expand(path), home being what homedir.Dir() yields.
Expand(path, home) ==
  IF path = <<>> THEN [path |-> path, err |-> Nil]
  ELSE IF path[1] # "~" THEN [path |-> path, err |-> Nil]
  ELSE IF Len(path) > 1 /\ path[2] # "/" /\ path[2] # "\\"
    THEN [path |-> <<>>, err |-> ErrorsNew("cannot expand user-specific home dir")]
  ELSE IF home = None
    THEN [path |-> <<>>, err |-> ErrorsNew("blank output when reading home directory")]
  ELSE [path |-> Join(home[1], Tail(path)), err |-> Nil]

\* NewConfigManager without the default for an empty configFile.
NewConfigManager_NoDefault(configFile, home) ==
  LET configPath == Expand(configFile, home) IN
  IF configPath.err # Nil
    THEN [store |-> None, err |-> configPath.err]
    ELSE [store |-> Some(configPath.path), err |-> Nil]

NewConfigManager(configFile, home) ==
  LET configPath == Expand(IF configFile = <<>> THEN DefaultConfigPath ELSE configFile, home)
  IN
  IF configPath.err # Nil
    THEN [store |-> None, err |-> configPath.err]
    ELSE [store |-> Some(configPath.path), err |-> Nil]

HomeU == <<"/", "home", "/", "u">>
Homes == {None, Some(HomeU), Some(HomeU \o <<"/">>), Some(<<"/">>), Some(<<"/", "root">>)}

Paths ==
  {<<>>, <<"~">>, DefaultConfigPath, <<"~", "/", "etc", "/", "cfg">>,
   <<"~", "bob", "/", "cfg">>, <<"/", "etc", "/", "saml2aws">>, <<"cfg.ini">>,
   <<"dir", "/", "~">>}

InitOpen ==
  /\ file \in ScriptFiles \cup {DocFile(<<>>), CorruptFile}
  /\ writable \in BOOLEAN
  /\ ini \in IniReleases
  /\ saved = {}
  /\ last = NoCall
  /\ homeDir \in Homes
  /\ cm = [store |-> None, err |-> Nil]
  /\ IdleRace /\ IdleScript

Open ==
  /\ \E configFile \in Paths :
       /\ cm' = NewConfigManager(configFile, homeDir)
       /\ last' = [op |-> "New", name |-> configFile, arg |-> None, account |-> None,
                   err |-> NewConfigManager(configFile, homeDir).err]
  /\ UNCHANGED <<file, writable, ini, saved, homeDir, pc, job, cfg, order, rt>>

NextOpen == Open

SpecOpen == InitOpen /\ [][NextOpen]_vars

\* p without the "/" it ends with
WithoutEnd(p, c) == IF p[Len(p)] = c THEN SubSeq(p, 1, Len(p) - 1) ELSE p

\* path under the home directory h, for a path written "~/" rest
UnderHome(h, rest) ==
  IF h[Len(h)] = "/" THEN h \o rest ELSE h \o <<"/">> \o rest

\* What C8 says of the store NewConfigManager(last.name) returned.
OpenedAsSpecified ==
  LET given == last.name
      path  == IF given = <<>> THEN DefaultConfigPath ELSE given
      tilde == path[1] = "~"
  IN
  /\ (cm.err = Nil) # (cm.store = None)
  /\ (given = <<>> /\ homeDir # None) =>
       cm = [store |-> Some(UnderHome(homeDir[1], <<".saml2aws">>)), err |-> Nil]
  /\ ~tilde => cm = [store |-> Some(given), err |-> Nil]
  /\ (tilde /\ homeDir # None /\ Len(path) > 2 /\ path[2] = "/") =>
       cm = [store |-> Some(UnderHome(homeDir[1], SubSeq(path, 3, Len(path)))), err |-> Nil]
  /\ (given = <<"~">> /\ homeDir # None) =>
       cm = [store |-> Some(IF homeDir[1] = <<"/">> THEN <<"/">>
                            ELSE WithoutEnd(homeDir[1], "/")),
             err |-> Nil]
  /\ (tilde /\ homeDir = None) => (cm.err # Nil /\ cm.store = None)
  /\ (tilde /\ Len(path) > 1 /\ path[2] # "/") => (cm.err # Nil /\ cm.store = None)

\* C8: NewConfigManager("") binds the store to ~/.saml2aws under the home
\* directory, NewConfigManager(path) to that path with a leading ~ expanded;
\* it returns an error and no store when the home directory cannot be
\* resolved (none for the user, or a "~user" path), and it never changes
\* the configuration file.
C8_OpenBindsPath ==
  [][last'.op = "New" => (file' = file /\ OpenedAsSpecified')]_vars

\* C8 happens: the empty path opened with a home directory, and a ~ path
\* is refused without one.
C8_Witness ==
  /\ last.op = "New"
  /\ last.name = <<>>
  /\ homeDir = Some(HomeU)
  /\ file.kind = "missing"
  /\ cm = [store |-> Some(<<"/", "home", "/", "u", "/", ".saml2aws">>), err |-> Nil]

---------------------------------------------------------------------------
(* Two processes in SaveIDPAccount on the same path: SpecRace runs each    *)
(* call as its three steps, interleaved.                                   *)

Procs == {1, 2}

RaceProfiles ==
  {NewIDPAccount,
   [NewIDPAccount EXCEPT !.URL = GoodURL, !.Provider = Ping, !.MFA = Auto],
   [NewIDPAccount EXCEPT !.URL = GoodURL, !.Provider = Ping, !.MFA = Auto,
                         !.Username = <<"alice">>]}

InitRace ==
  /\ file \in ScriptFiles \cup {DocFile(<<>>)}
  /\ writable = TRUE
  /\ ini \in IniReleases
  /\ saved = {}
  /\ last = NoCall
  /\ IdleOpen
  /\ pc = [p \in Procs |-> "start"]
  /\ job \in [Procs -> [name : Names, account : RaceProfiles]]
  /\ cfg = [p \in Procs |-> <<>>]
  /\ order = <<>>
  /\ rt = [step |-> "race", name |-> <<>>, account |-> None, snap |-> file]

\* account.Validate(), then ini.LoadSources: the whole file into memory
RaceLoad(p) ==
  /\ pc[p] = "start"
  /\ IF Validate(job[p].account) # Nil \/ LoadSources(file).err # Nil
       THEN /\ pc' = [pc EXCEPT ![p] = "failed"]
            /\ UNCHANGED <<cfg, order>>
       ELSE /\ pc' = [pc EXCEPT ![p] = "loaded"]
            /\ cfg' = [cfg EXCEPT ![p] = LoadSources(file).secs]
            /\ order' = Append(order, <<"L", p>>)
  /\ UNCHANGED <<file, writable, ini, saved, last, homeDir, cm, job, rt>>

\* cfg.NewSection and newSec.ReflectFrom: the document changes in memory
RaceMutate(p) ==
  /\ pc[p] = "loaded"
  /\ IF NewSection(cfg[p], job[p].name).err # Nil
       THEN /\ pc' = [pc EXCEPT ![p] = "failed"]
            /\ UNCHANGED cfg
       ELSE /\ pc' = [pc EXCEPT ![p] = "mutated"]
            /\ cfg' = [cfg EXCEPT ![p] = ReflectFrom(cfg[p], job[p].name, job[p].account)]
  /\ UNCHANGED <<file, writable, ini, saved, last, homeDir, cm, job, order, rt>>

\* cfg.SaveTo: the document in memory replaces the file
RaceWrite(p) ==
  /\ pc[p] = "mutated"
  /\ writable
  /\ file' = SaveTo(file, cfg[p], ini)
  /\ saved' = saved \cup {job[p].name}
  /\ pc' = [pc EXCEPT ![p] = "done"]
  /\ order' = Append(order, <<"W", p>>)
  /\ UNCHANGED <<writable, ini, last, homeDir, cm, job, cfg, rt>>

NextRace == \E p \in Procs : RaceLoad(p) \/ RaceMutate(p) \/ RaceWrite(p)

SpecRace == InitRace /\ [][NextRace]_vars

Pos(e) == CHOOSE i \in 1..Len(order) : order[i] = e
Happened(e) == \E i \in 1..Len(order) : order[i] = e

\* p loaded before q wrote, and wrote after q did
WroteOver(p, q) ==
  /\ p # q
  /\ Happened(<<"W", p>>) /\ Happened(<<"W", q>>)
  /\ Pos(<<"L", p>>) < Pos(<<"W", q>>)
  /\ Pos(<<"W", q>>) < Pos(<<"W", p>>)

SectionIn(secs, name) == IF name \in DOMAIN secs THEN Some(secs[name]) ELSE None

=============================================================================
